---- MODULE Spec2Model ----
(***************************************************************************)
(* Telemetry backend (SammyBGH/Piezo-backend): the four server variants    *)
(*   "server.js"       src/server.js          MongoDB, no input check      *)
(*   "part_000"        src/unnamed/part_000   MongoDB, isNaN check, purge  *)
(*   "part_001"        src/unnamed/part_001   data.json, bounded history   *)
(*   "21servercopy.js" src/21servercopy.js    data.json, unbounded         *)
(* One behaviour runs one variant (chosen in Init).  The HTTP handlers,    *)
(* the socket.io connection handler and the store are modelled; an async   *)
(* handler is split at each await into the step that issues the database   *)
(* operation, the step in which the database executes it, and the step in  *)
(* which the handler resumes.                                              *)
(***************************************************************************)
EXTENDS Integers, Sequences, FiniteSets, TLC

\* ---------------------------------------------------------------- bounds
MaxFilePosts == 3   \* POST /api/data requests and simulator callbacks of one behaviour, flat-file variants
MaxMongoPosts == 2  \* POST /api/data requests of one behaviour, MongoDB variants
NumObs == 2         \* socket.io clients that connect in one behaviour, flat-file variants
MaxMongoObs == 1    \* socket.io clients that connect in one behaviour, MongoDB variants
MaxClock == 2       \* the wall clock runs from 1 to MaxClock
MaxSimTicks == 2    \* callbacks of the simulator's interval timer in one behaviour

\* MAX_HISTORY is 1000 in the source; the model keeps the same slice(-MAX_HISTORY)
\* with a history short enough for a behaviour to overflow it.
MAX_HISTORY == 2

Variants == {"server.js", "part_000", "part_001", "21servercopy.js"}
MongoVariants == {"server.js", "part_000"}
FileVariants == {"part_001", "21servercopy.js"}

PostIds == 1..MaxMongoPosts
Obs == 1..NumObs

\* ------------------------------------------------------- JavaScript values
V(k, n) == [k |-> k, n |-> n]
Undef == V("undef", 0)          \* undefined, or a key that is absent
Null == V("null", 0)
NaN == V("nan", 0)
Inf == V("inf", 0)              \* the number Infinity (JSON 1e999 parses to it)
Str == V("str", 0)              \* a string that is neither a number nor a date
Num(n) == V("num", n)           \* a finite number
Iso(n) == V("iso", n)           \* the ISO-8601 string of instant n
DateV(n) == V("date", n)        \* a Date object of instant n
BadDate == V("baddate", 0)      \* new Date(<unparsable>): Invalid Date

\* Number(v)
Number(v) ==
  CASE v.k = "num" -> v
    [] v.k = "inf" -> Inf
    [] v.k = "null" -> Num(0)
    [] v.k = "date" -> Num(v.n)
    [] OTHER -> NaN

isNaN(v) == Number(v).k = "nan"
isFinite(v) == Number(v).k = "num"

\* JavaScript truthiness, as used by `reading.timestamp || ...` and `timestamp ? ... : ...`
Truthy(v) ==
  CASE v.k \in {"undef", "null", "nan"} -> FALSE
    [] v.k = "num" -> v.n # 0
    [] OTHER -> TRUE

\* new Date(v)
NewDate(v) ==
  CASE v.k \in {"iso", "date", "num"} -> DateV(v.n)
    [] v.k = "null" -> DateV(0)
    [] OTHER -> BadDate

\* What JSON.stringify followed by JSON.parse makes of a value: NaN, Infinity and an
\* Invalid Date become null, a Date becomes its ISO string, undefined drops the key.
JsonValue(v) ==
  CASE v.k \in {"nan", "inf", "baddate"} -> Null
    [] v.k = "date" -> Iso(v.n)
    [] OTHER -> v

\* A JavaScript object with the keys the program uses; an absent key holds Undef.
Keys == {"steps", "power", "voltage", "current", "power_mW", "voltage_V", "current_mA", "timestamp", "id"}
EmptyObj == [f \in Keys |-> Undef]

JsonObj(o) == [f \in Keys |-> JsonValue(o[f])]
JsonArr(arr) == [i \in 1..Len(arr) |-> JsonObj(arr[i])]

\* ------------------------------------------------------------ request bodies
Body(s, p, v, c, t) ==
  [EmptyObj EXCEPT !["steps"] = s, !["power"] = p, !["voltage"] = v, !["current"] = c,
                   !["timestamp"] = t]

Bodies ==
  { Body(Num(1), Num(2), Num(3), Num(4), Undef),     \* a valid reading, no timestamp
    Body(Num(5), Num(6), Num(7), Num(8), Iso(0)),    \* a valid reading with a past timestamp
    Body(Undef, Num(2), Num(3), Num(4), Undef),      \* steps missing
    Body(Str, Num(2), Num(3), Num(4), Undef),        \* steps a non-numeric string
    Body(Num(1), Inf, Num(3), Num(4), Undef),        \* power 1e999
    Body(Num(1), Num(2), Num(3), Num(4), Str) }      \* an unparsable timestamp

VARIABLES variant, adminKey, now, store, nposts, posts, obs, inbox, resp,
          timer, simulatedIndex, nticks

\* The replay simulator of 21servercopy.js: whether its interval timer was set, the
\* closure variable simulatedIndex, and the number of timer callbacks run so far.
simvars == <<timer, simulatedIndex, nticks>>

vars == <<variant, adminKey, now, store, nposts, posts, obs, inbox, resp, simvars>>

\* ------------------------------------------------------------ shared pieces
\* resp is the answer to a POST /api/data sent by the step just taken, with the
\* request body it answers (NoResp when the step answered no POST).  The answers of
\* GET and DELETE are functions of the state and the request: GetResponse,
\* DeleteResponse.
NoResp == [rid |-> 0, status |-> 0, body |-> EmptyObj, data |-> <<>>]
Response(rid, status, body, data) == [rid |-> rid, status |-> status, body |-> body, data |-> data]

\* The answer of a GET or DELETE request.
Answer(status, data) == [status |-> status, data |-> data]

IdlePost == [pc |-> "idle", body |-> EmptyObj, doc |-> EmptyObj]
DonePost == [pc |-> "done", body |-> EmptyObj, doc |-> EmptyObj]
NoObs == [sock |-> "none", pc |-> "idle", snap |-> <<>>]

Message(type, data) == [type |-> type, data |-> data]

\* io.emit(type, payload): socket.io delivers the JSON form of the payload to every
\* socket that is connected to the namespace at this moment.
Emit(ib, type, data) ==
  [o \in Obs |-> IF obs[o].sock = "open" THEN Append(ib[o], Message(type, data)) ELSE ib[o]]

\* socket.emit(type, payload): to this socket alone; dropped once it has disconnected.
SocketEmit(ib, o, type, data) ==
  IF obs[o].sock = "open" THEN [ib EXCEPT ![o] = Append(@, Message(type, data))] ELSE ib

\* The wall clock (Date.now, new Date()) advances between events.
Tick ==
  /\ now < MaxClock
  /\ now' = now + 1
  /\ resp' = NoResp
  /\ UNCHANGED <<simvars, variant, adminKey, store, nposts, posts, obs, inbox>>

\* socket.on('disconnect'): the handler only logs; socket.io has removed the socket
\* from the namespace.  The client is gone, and with it what it had received.
Disconnect(o) ==
  /\ obs[o].sock = "open"
  /\ obs' = [obs EXCEPT ![o].sock = "closed"]
  /\ inbox' = [inbox EXCEPT ![o] = <<>>]
  /\ resp' = NoResp
  /\ UNCHANGED <<simvars, variant, adminKey, now, store, nposts, posts>>

\* ------------------------------------------------- MongoDB variants: the store
\* The mongoose schema: the four Number paths reject NaN (CastError), the Date path
\* rejects an Invalid Date; reading.save() then rejects with a ValidationError.
CastOk(doc) ==
  /\ \A f \in {"steps", "power_mW", "voltage_V", "current_mA"} : doc[f].k \in {"num", "inf"}
  /\ doc["timestamp"].k = "date"

\* Reading.find().sort({ timestamp: 1 }): ascending by timestamp, stable.
RECURSIVE InsertByTimestamp(_, _)
InsertByTimestamp(sorted, d) ==
  IF sorted = <<>> THEN <<d>>
  ELSE IF Head(sorted)["timestamp"].n <= d["timestamp"].n
       THEN <<Head(sorted)>> \o InsertByTimestamp(Tail(sorted), d)
       ELSE <<d>> \o sorted

RECURSIVE SortByTimestamp(_)
SortByTimestamp(arr) ==
  IF arr = <<>> THEN <<>>
  ELSE InsertByTimestamp(SortByTimestamp(SubSeq(arr, 1, Len(arr) - 1)), arr[Len(arr)])

FindSorted == SortByTimestamp(store)

\* new Reading({...}): Number() of each field of the body (part_000 has checked them
\* before, server.js has not); mongoose gives the document its _id, and its timestamp
\* when the body has none (default: Date.now).
NewReading(body, p) ==
  [EmptyObj EXCEPT !["steps"] = Number(body["steps"]),
                   !["power_mW"] = Number(body["power"]),
                   !["voltage_V"] = Number(body["voltage"]),
                   !["current_mA"] = Number(body["current"]),
                   !["timestamp"] = IF Truthy(body["timestamp"])
                                    THEN NewDate(body["timestamp"]) ELSE DateV(now),
                   !["id"] = Num(p)]

\* part_000's check before the document is built.
InvalidNumericValues(body) ==
  \/ isNaN(body["steps"])
  \/ isNaN(body["power"])
  \/ isNaN(body["voltage"])
  \/ isNaN(body["current"])

\* ------------------------------------------------ MongoDB variants: handlers
\* app.post('/api/data'), up to `await reading.save()`.  part_000 answers 400 when a
\* field is NaN; server.js has no check.  The document gets its _id and its default
\* timestamp when it is constructed.
MongoPostStart(body) ==
  /\ variant \in MongoVariants
  /\ nposts < MaxMongoPosts
  /\ nposts' = nposts + 1
  /\ LET p == nposts + 1 IN
       IF variant = "part_000" /\ InvalidNumericValues(body)
       THEN /\ resp' = Response(p, 400, body, <<>>)
            /\ posts' = [posts EXCEPT ![p] = DonePost]
       ELSE /\ posts' = [posts EXCEPT ![p] = [pc |-> "saving", body |-> body,
                                              doc |-> NewReading(body, p)]]
            /\ resp' = NoResp
  /\ UNCHANGED <<simvars, variant, adminKey, now, store, obs, inbox>>

\* reading.save() succeeds: the document is in the collection.
MongoSaveOk(p) ==
  /\ posts[p].pc = "saving"
  /\ CastOk(posts[p].doc)
  /\ store' = Append(store, posts[p].doc)
  /\ posts' = [posts EXCEPT ![p].pc = "saved"]
  /\ resp' = NoResp
  /\ UNCHANGED <<simvars, variant, adminKey, now, nposts, obs, inbox>>

\* reading.save() rejects: schema validation, or the database is unavailable.
MongoSaveFail(p) ==
  /\ posts[p].pc = "saving"
  /\ posts' = [posts EXCEPT ![p].pc = "failed"]
  /\ resp' = NoResp
  /\ UNCHANGED <<simvars, variant, adminKey, now, store, nposts, obs, inbox>>

\* A handler whose io.emit throws when a socket is connected: the catch block then
\* answers 500 for a reading that is in the collection.
PostResumeEmitThrows(p) ==
  /\ posts[p].pc \in {"saved", "failed"}
  /\ inbox' = inbox
  /\ resp' = IF posts[p].pc = "saved" /\ \A o \in Obs : obs[o].sock # "open"
             THEN Response(p, 200, posts[p].body, <<JsonObj(posts[p].doc)>>)
             ELSE Response(p, 500, posts[p].body, <<>>)
  /\ posts' = [posts EXCEPT ![p] = DonePost]
  /\ UNCHANGED <<simvars, variant, adminKey, now, store, nposts, obs>>

\* The POST handler resumes after the await: io.emit('new-reading', saved) and the
\* 200 answer, or the catch block's 500.
MongoPostResume(p) ==
  /\ posts[p].pc \in {"saved", "failed"}
  /\ IF posts[p].pc = "saved"
     THEN /\ inbox' = Emit(inbox, "new-reading", <<JsonObj(posts[p].doc)>>)
          /\ resp' = Response(p, 200, posts[p].body, <<JsonObj(posts[p].doc)>>)
     ELSE /\ inbox' = inbox
          /\ resp' = Response(p, 500, posts[p].body, <<>>)
  /\ posts' = [posts EXCEPT ![p] = DonePost]
  /\ UNCHANGED <<simvars, variant, adminKey, now, store, nposts, obs>>

\* app.get('/api/data') of the MongoDB variants: what it answers when the database
\* runs its find in this state (fault: the find rejects).
MongoGetResponse(fault) ==
  IF fault THEN Answer(500, <<>>) ELSE Answer(200, JsonArr(FindSorted))

\* The GET handler changes nothing on the server.
MongoGet(fault) ==
  /\ variant \in MongoVariants
  /\ resp' = NoResp
  /\ UNCHANGED <<simvars, variant, adminKey, now, store, nposts, posts, obs, inbox>>

\* $sum over the collection: the sum of a Number path (Infinity once a document holds it).
RECURSIVE SumField(_, _)
SumField(arr, f) ==
  IF arr = <<>> THEN Num(0)
  ELSE LET rest == SumField(Tail(arr), f) IN
         IF Head(arr)[f].k = "inf" \/ rest.k = "inf" THEN Inf
         ELSE Num(Head(arr)[f].n + rest.n)

\* A quotient n / d that is not rounded (d > 0).
Ratio(n, d) == [k |-> "num", n |-> n, d |-> d]

\* $avg over the collection: the sum divided by the number of documents.
AvgField(arr, f) ==
  IF SumField(arr, f).k = "inf" THEN [k |-> "inf", n |-> 0, d |-> 1]
  ELSE Ratio(SumField(arr, f).n, Len(arr))

\* res.json of a number: Infinity is written as null.
JsonRatio(r) == IF r.k = "inf" THEN [k |-> "null", n |-> 0, d |-> 1] ELSE r

\* app.get('/api/totals'): the $group over the whole collection, or the all-zero
\* answer when the aggregation returns no group (fault: the aggregation rejects).
\* part_000 adds totalVoltage and totalCurrent, which no claim reads.
TotalsResponse(fault) ==
  IF fault THEN Answer(500, <<>>)
  ELSE IF Len(store) = 0
  THEN Answer(200, [totalSteps |-> Num(0), totalPower |-> Num(0), avgPower |-> Ratio(0, 1),
                    avgVoltage |-> Ratio(0, 1), avgCurrent |-> Ratio(0, 1)])
  ELSE Answer(200, [totalSteps |-> JsonValue(SumField(store, "steps")),
                    totalPower |-> JsonValue(SumField(store, "power_mW")),
                    avgPower |-> JsonRatio(AvgField(store, "power_mW")),
                    avgVoltage |-> JsonRatio(AvgField(store, "voltage_V")),
                    avgCurrent |-> JsonRatio(AvgField(store, "current_mA"))])

\* The totals handler changes nothing on the server.
MongoTotals(fault) ==
  /\ variant \in MongoVariants
  /\ TotalsResponse(fault).status \in {200, 500}
  /\ resp' = NoResp
  /\ UNCHANGED <<simvars, variant, adminKey, now, store, nposts, posts, obs, inbox>>

\* Clock instants per UTC day: instants 0 and 1 fall on one day, 2 and 3 on the next.
DayLength == 2

\* $dateToString with format "%Y-%m-%d": the UTC day of a stored timestamp.
dateToString(d) == d.n \div DayLength

\* The documents of one $group key, in collection order.
DocsOfDay(day) == SelectSeq(store, LAMBDA doc : dateToString(doc["timestamp"]) = day)

\* One group of the daily $group stage: the day and its four accumulators.
DailyGroup(day) ==
  [ _id |-> day,
    totalSteps |-> JsonValue(SumField(DocsOfDay(day), "steps")),
    totalPower |-> JsonValue(SumField(DocsOfDay(day), "power_mW")),
    avgVoltage |-> JsonRatio(AvgField(DocsOfDay(day), "voltage_V")),
    avgCurrent |-> JsonRatio(AvgField(DocsOfDay(day), "current_mA")) ]

\* $sort { _id: 1 } over the groups of the days that have documents.
RECURSIVE SortedGroups(_)
SortedGroups(days) ==
  IF days = {} THEN <<>>
  ELSE LET first == CHOOSE d \in days : \A e \in days : d <= e
       IN <<DailyGroup(first)>> \o SortedGroups(days \ {first})

\* app.get('/api/daily') of server.js (fault: the aggregation rejects).
DailyResponse(fault) ==
  IF fault THEN Answer(500, <<>>)
  ELSE Answer(200, SortedGroups({dateToString(store[i]["timestamp"]) : i \in 1..Len(store)}))

\* The daily handler changes nothing on the server.
MongoDaily(fault) ==
  /\ variant = "server.js"
  /\ DailyResponse(fault).status \in {200, 500}
  /\ resp' = NoResp
  /\ UNCHANGED <<simvars, variant, adminKey, now, store, nposts, posts, obs, inbox>>

\* req.query.key of a DELETE request: absent, the secret, or another string.
RequestKeys == {"undefined", "secret", "wrong"}

\* app.delete('/api/delete-all') of part_000: `key !== process.env.ADMIN_KEY` answers
\* 403; otherwise deleteMany({}) runs (fault: it rejects, 500).
DeleteResponse(key, fault) ==
  IF key # adminKey THEN Answer(403, <<>>)
  ELSE IF fault THEN Answer(500, <<>>)
  ELSE Answer(200, <<>>)

\* The collection after the DELETE request.
DeleteStore(key, fault) ==
  IF DeleteResponse(key, fault).status = 200 THEN <<>> ELSE store

DeleteAll(key, fault) ==
  /\ variant = "part_000"
  /\ store' = DeleteStore(key, fault)
  /\ resp' = NoResp
  /\ UNCHANGED <<simvars, variant, adminKey, now, nposts, posts, obs, inbox>>

\* io.on('connection'): socket.io has added the socket to the namespace (io.emit
\* reaches it from now on) and the handler is at `await Reading.find()`.
MongoConnect(o) ==
  /\ variant \in MongoVariants
  /\ o <= MaxMongoObs
  /\ obs[o].sock = "none"
  /\ \A q \in Obs : q < o => obs[q].sock # "none"
  /\ obs' = [obs EXCEPT ![o] = [sock |-> "open", pc |-> "finding", snap |-> <<>>]]
  /\ resp' = NoResp
  /\ UNCHANGED <<simvars, variant, adminKey, now, store, nposts, posts, inbox>>

\* The database runs the connection handler's find, or the find fails.
MongoFindRead(o, fault) ==
  /\ obs[o].pc = "finding"
  /\ obs' = [obs EXCEPT ![o].pc = IF fault THEN "failed" ELSE "found",
                        ![o].snap = IF fault THEN <<>> ELSE JsonArr(FindSorted)]
  /\ resp' = NoResp
  /\ UNCHANGED <<simvars, variant, adminKey, now, store, nposts, posts, inbox>>

\* The connection handler resumes: socket.emit('initial-data', readings), or the
\* catch block, which only logs.
MongoConnResume(o) ==
  /\ obs[o].pc \in {"found", "failed"}
  /\ inbox' = IF obs[o].pc = "found"
              THEN SocketEmit(inbox, o, "initial-data", obs[o].snap) ELSE inbox
  /\ obs' = [obs EXCEPT ![o].pc = "done", ![o].snap = <<>>]
  /\ resp' = NoResp
  /\ UNCHANGED <<simvars, variant, adminKey, now, store, nposts, posts>>

\* ------------------------------------------------------ flat-file variants
\* loadDataArray(): the parsed data.json, or [] when the read or the parse throws.
loadDataArray(fault) == IF fault THEN <<>> ELSE store

toNumberOrNull(val) == LET num == Number(val) IN IF isFinite(num) THEN num ELSE Null

\* normalizeReading(reading) of part_001.
normalizeReading(reading) ==
  [EmptyObj EXCEPT !["steps"] = toNumberOrNull(reading["steps"]),
                   !["power_mW"] = toNumberOrNull(reading["power"]),
                   !["voltage_V"] = toNumberOrNull(reading["voltage"]),
                   !["current_mA"] = toNumberOrNull(reading["current"]),
                   !["timestamp"] = IF Truthy(reading["timestamp"])
                                    THEN reading["timestamp"] ELSE Iso(now)]

MapNormalize(arr) == [i \in 1..Len(arr) |-> normalizeReading(arr[i])]

\* What the read paths hand out: part_001 maps normalizeReading over the loaded
\* array, 21servercopy.js returns it as loaded.
ReadAll(fault) ==
  IF variant = "part_001" THEN MapNormalize(loadDataArray(fault)) ELSE loadDataArray(fault)

\* The POST handlers' format check (the body is an object: express has parsed it).
InvalidReadingFormat(reading) ==
  \/ reading["steps"].k = "undef"
  \/ reading["voltage"].k = "undef"
  \/ reading["current"].k = "undef"
  \/ reading["power"].k = "undef"

\* The record the POST handler stores and emits: normalizeReading(reading) in
\* part_001, the body with its timestamp filled in in 21servercopy.js.
PostedReading(reading) ==
  IF variant = "part_001" THEN normalizeReading(reading)
  ELSE [reading EXCEPT !["timestamp"] = IF Truthy(@) THEN @ ELSE Iso(now)]

\* arr.slice(-MAX_HISTORY)
SliceLast(arr, n) == IF Len(arr) <= n THEN arr ELSE SubSeq(arr, Len(arr) - n + 1, Len(arr))

\* The array the POST handler writes: part_001 trims it, 21servercopy.js does not.
Trimmed(arr) == IF variant = "part_001" THEN SliceLast(arr, MAX_HISTORY) ELSE arr

\* A POST handler that emits before it writes: the reading is broadcast even when
\* writeFileSync throws.
FilePostEmitsFirst(body, loadFault, writeFault) ==
  /\ variant \in FileVariants
  /\ nposts + nticks < MaxFilePosts
  /\ nposts' = nposts + 1
  /\ LET p == nposts + 1
         reading == PostedReading(body)
         arr == Append(loadDataArray(loadFault), reading)
     IN IF InvalidReadingFormat(body)
        THEN /\ resp' = Response(p, 400, body, <<>>)
             /\ UNCHANGED <<store, inbox>>
        ELSE /\ inbox' = Emit(inbox, "new-reading", <<JsonObj(reading)>>)
             /\ IF writeFault
                THEN /\ resp' = Response(p, 500, body, <<>>)
                     /\ store' = store
                ELSE /\ store' = JsonArr(Trimmed(arr))
                     /\ resp' = Response(p, 200, body, <<JsonObj(reading)>>)
  /\ UNCHANGED <<simvars, variant, adminKey, now, posts, obs>>

\* app.post('/api/data') of the flat-file variants, start to finish.
FilePost(body, loadFault, writeFault) ==
  /\ variant \in FileVariants
  /\ nposts + nticks < MaxFilePosts
  /\ nposts' = nposts + 1
  /\ LET p == nposts + 1
         reading == PostedReading(body)
         arr == Append(loadDataArray(loadFault), reading)
     IN IF InvalidReadingFormat(body)
        THEN /\ resp' = Response(p, 400, body, <<>>)
             /\ UNCHANGED <<store, inbox>>
        ELSE IF writeFault
        THEN /\ resp' = Response(p, 500, body, <<>>)
             /\ UNCHANGED <<store, inbox>>
        ELSE /\ store' = JsonArr(Trimmed(arr))
             /\ inbox' = Emit(inbox, "new-reading", <<JsonObj(reading)>>)
             /\ resp' = Response(p, 200, body, <<JsonObj(reading)>>)
  /\ UNCHANGED <<simvars, variant, adminKey, now, posts, obs>>

\* app.get('/api/data') of the flat-file variants: what it answers in this state
\* (fault: loadDataArray's read or parse throws).
FileGetResponse(fault) == Answer(200, JsonArr(ReadAll(fault)))

\* The GET handler changes nothing on the server.
FileGet(fault) ==
  /\ variant \in FileVariants
  /\ resp' = NoResp
  /\ UNCHANGED <<simvars, variant, adminKey, now, store, nposts, posts, obs, inbox>>

\* A connection handler that sends the history without its latest reading.
ConnectStaleSnapshot(o, fault) ==
  /\ variant \in FileVariants
  /\ obs[o].sock = "none"
  /\ \A q \in Obs : q < o => obs[q].sock # "none"
  /\ obs' = [obs EXCEPT ![o] = [sock |-> "open", pc |-> "done", snap |-> <<>>]]
  /\ inbox' = [inbox EXCEPT ![o] =
                 Append(@, Message("initial-data",
                                   JsonArr(SubSeq(ReadAll(fault), 1, Len(ReadAll(fault)) - 1))))]
  /\ resp' = NoResp
  /\ UNCHANGED <<simvars, variant, adminKey, now, store, nposts, posts>>

\* io.on('connection') of the flat-file variants: the history is loaded and sent in
\* the same turn of the event loop in which the socket joined the namespace.
FileConnect(o, fault) ==
  /\ variant \in FileVariants
  /\ obs[o].sock = "none"
  /\ \A q \in Obs : q < o => obs[q].sock # "none"
  /\ obs' = [obs EXCEPT ![o] = [sock |-> "open", pc |-> "done", snap |-> <<>>]]
  /\ inbox' = [inbox EXCEPT ![o] = Append(@, Message("initial-data", JsonArr(ReadAll(fault))))]
  /\ resp' = NoResp
  /\ UNCHANGED <<simvars, variant, adminKey, now, store, nposts, posts>>

\* ------------------------------------------------- the replay simulator
\* data.json as the server may find it when it starts: absent, or a recorded history.
StartHistories ==
  { <<>>,
    <<JsonObj(Body(Num(5), Num(6), Num(7), Num(8), Iso(0))),
      JsonObj(Body(Num(1), Num(2), Num(3), Num(4), Iso(0)))>> }

\* startSimulator(): the interval timer is set unless the first load is empty.
startSimulator(fault) == Len(loadDataArray(fault)) > 0

\* { ...data[simulatedIndex] }: the own properties of the element, none when the
\* index is past the end of the array (spreading undefined gives {}).
SpreadAt(data, index) == IF index < Len(data) THEN data[index + 1] ELSE EmptyObj

\* The callback of setInterval: reload, copy the reading under the index, stamp it
\* with the current time, broadcast it, advance the index.
SimulatorTick(fault) ==
  /\ timer
  /\ nticks < MaxSimTicks
  /\ nposts + nticks < MaxFilePosts
  /\ nticks' = nticks + 1
  /\ LET data == loadDataArray(fault)
         reading == [SpreadAt(data, simulatedIndex) EXCEPT !["timestamp"] = Iso(now)]
     IN IF Len(data) = 0
        THEN UNCHANGED <<inbox, simulatedIndex>>
        ELSE /\ inbox' = Emit(inbox, "new-reading", <<JsonObj(reading)>>)
             /\ simulatedIndex' = (simulatedIndex + 1) % Len(data)
  /\ resp' = NoResp
  /\ UNCHANGED <<timer, variant, adminKey, now, store, nposts, posts, obs>>

\* ------------------------------------------------------------ the whole server
Init ==
  /\ variant \in Variants
  /\ adminKey \in {"undefined", "secret"}
  /\ (variant # "part_000" => adminKey = "undefined")
  /\ now = 1
  /\ store \in (IF variant = "21servercopy.js" THEN StartHistories ELSE {<<>>})
  /\ nposts = 0
  /\ posts = [p \in PostIds |-> IdlePost]
  /\ obs = [o \in Obs |-> NoObs]
  /\ inbox = [o \in Obs |-> <<>>]
  /\ resp = NoResp
  /\ timer \in {variant = "21servercopy.js" /\ startSimulator(fault) : fault \in BOOLEAN}
  /\ simulatedIndex = 0
  /\ nticks = 0

Next ==
  \/ Tick
  \/ \E o \in Obs : Disconnect(o)
  \/ \E b \in Bodies : MongoPostStart(b)
  \/ \E p \in PostIds : MongoSaveOk(p)
  \/ \E p \in PostIds : MongoSaveFail(p)
  \/ \E p \in PostIds : MongoPostResume(p)
  \/ \E f \in BOOLEAN : MongoGet(f)
  \/ \E f \in BOOLEAN : MongoTotals(f)
  \/ \E f \in BOOLEAN : MongoDaily(f)
  \/ \E k \in RequestKeys, f \in BOOLEAN : DeleteAll(k, f)
  \/ \E o \in Obs : MongoConnect(o)
  \/ \E o \in Obs, f \in BOOLEAN : MongoFindRead(o, f)
  \/ \E o \in Obs : MongoConnResume(o)
  \/ \E b \in Bodies, lf \in BOOLEAN, wf \in BOOLEAN : FilePost(b, lf, wf)
  \/ \E f \in BOOLEAN : FileGet(f)
  \/ \E o \in Obs, f \in BOOLEAN : FileConnect(o, f)
  \/ \E f \in BOOLEAN : SimulatorTick(f)

Spec == Init /\ [][Next]_vars

\* The MongoDB variants alone.
InitMongo == Init /\ variant \in MongoVariants

NextMongo ==
  \/ Tick
  \/ \E o \in Obs : Disconnect(o)
  \/ \E b \in Bodies : MongoPostStart(b)
  \/ \E p \in PostIds : MongoSaveOk(p)
  \/ \E p \in PostIds : MongoSaveFail(p)
  \/ \E p \in PostIds : MongoPostResume(p)
  \/ \E f \in BOOLEAN : MongoGet(f)
  \/ \E f \in BOOLEAN : MongoTotals(f)
  \/ \E f \in BOOLEAN : MongoDaily(f)
  \/ \E k \in RequestKeys, f \in BOOLEAN : DeleteAll(k, f)
  \/ \E o \in Obs : MongoConnect(o)
  \/ \E o \in Obs, f \in BOOLEAN : MongoFindRead(o, f)
  \/ \E o \in Obs : MongoConnResume(o)

SpecMongo == InitMongo /\ [][NextMongo]_vars

\* The flat-file variants alone.
InitFile == Init /\ variant \in FileVariants

NextFile ==
  \/ Tick
  \/ \E o \in Obs : Disconnect(o)
  \/ \E b \in Bodies, lf \in BOOLEAN, wf \in BOOLEAN : FilePost(b, lf, wf)
  \/ \E f \in BOOLEAN : FileGet(f)
  \/ \E o \in Obs, f \in BOOLEAN : FileConnect(o, f)
  \/ \E f \in BOOLEAN : SimulatorTick(f)

SpecFile == InitFile /\ [][NextFile]_vars

\* ===================================================================== claims
NumberKeys == {"steps", "power_mW", "voltage_V", "current_mA"}
WireKeys == {"steps", "power", "voltage", "current"}
ReadingKeys == NumberKeys \cup {"timestamp"}

\* How often the reading with this _id occurs in an array / in a sequence of messages.
RECURSIVE CountIn(_, _)
CountIn(arr, id) ==
  IF arr = <<>> THEN 0
  ELSE (IF Head(arr)["id"] = id THEN 1 ELSE 0) + CountIn(Tail(arr), id)

RECURSIVE Received(_, _)
Received(msgs, id) ==
  IF msgs = <<>> THEN 0 ELSE CountIn(Head(msgs).data, id) + Received(Tail(msgs), id)

\* C1: in the MongoDB variants, an observer that is connected and has been sent its
\* initial-data has received every stored reading whose POST handler has finished
\* exactly once: in the initial-data snapshot or as one new-reading, never in both
\* and never in neither.
C1_ExactlyOnce ==
  variant \in MongoVariants =>
    \A o \in Obs :
      (/\ obs[o].sock = "open"
       /\ obs[o].pc = "done"
       /\ \E k \in 1..Len(inbox[o]) : inbox[o][k].type = "initial-data") =>
        \A i \in 1..Len(store) :
          posts[store[i]["id"].n].pc = "done" =>
            Received(inbox[o], store[i]["id"]) = 1

\* C2: the first message an observer receives is its initial-data; no new-reading
\* is delivered to it before.
C2_InitialDataFirst ==
  \A o \in Obs : inbox[o] # <<>> => inbox[o][1].type = "initial-data"

\* C3: in part_001 the persisted history never exceeds MAX_HISTORY, and every
\* successful POST leaves the previous history plus the new reading, cut to its last
\* MAX_HISTORY entries (so that after more than MAX_HISTORY appends it holds exactly
\* the last MAX_HISTORY appended readings, in append order).
C3_BoundedFifo ==
  [][ variant = "part_001" =>
        /\ Len(store') <= MAX_HISTORY
        /\ resp'.status = 200 =>
             store' = SliceLast(Append(store, resp'.data[1]), MAX_HISTORY) ]_vars

\* C4: in part_001, GET /api/data (and the initial-data snapshot, which is the same
\* read) returns each stored valid reading with the five fields it was stored with.
C4_RoundTrip ==
  variant = "part_001" =>
    LET got == FileGetResponse(FALSE).data IN
      /\ Len(got) = Len(store)
      /\ \A i \in 1..Len(store) :
           (\A f \in NumberKeys : store[i][f].k = "num") =>
             \A f \in ReadingKeys : got[i][f] = store[i][f]

\* C5: every stored reading has finite numbers in its four numeric fields.
C5_FiniteFields ==
  \A i \in 1..Len(store) :
    \A f \in (IF variant = "21servercopy.js" THEN WireKeys ELSE NumberKeys) :
      store[i][f].k = "num"

Lacks(body) == \E f \in WireKeys : body[f].k = "undef"

\* C6: a POST whose body lacks one of the four numeric fields is answered 400, and
\* the step that answers it changes neither the store nor any observer's messages;
\* nor is such a request's document ever saved.
C6_MissingField ==
  [][ /\ (resp'.rid # 0 /\ Lacks(resp'.body)) =>
           (resp'.status = 400 /\ store' = store /\ inbox' = inbox)
      /\ \A p \in PostIds : Lacks(posts[p].body) => posts'[p].pc # "saved" ]_vars

\* C7: DELETE /api/delete-all answers 403 and leaves the store as it is unless a
\* secret is configured and the request's key equals it; with the right key it does
\* not answer 403, and when it answers 200 the store is empty.
C7_PurgeNeedsSecret ==
  variant = "part_000" =>
    \A key \in RequestKeys, fault \in BOOLEAN :
      IF adminKey # "undefined" /\ key = adminKey
      THEN /\ DeleteResponse(key, fault).status # 403
           /\ DeleteResponse(key, fault).status = 200 => DeleteStore(key, fault) = <<>>
      ELSE /\ DeleteResponse(key, fault).status = 403
           /\ DeleteStore(key, fault) = store

InSeq(x, arr) == \E i \in 1..Len(arr) : arr[i] = x

\* C8: a stored reading is still in the store, unchanged, after every step, unless
\* the step is the administrative purge or the reading is the oldest one of a full
\* bounded history that a POST evicts.
C8_StoredStays ==
  [][ \A i \in 1..Len(store) :
        \/ InSeq(store[i], store')
        \/ variant = "part_000" /\ store' = <<>>
        \/ /\ variant = "part_001"
           /\ i = 1
           /\ Len(store) = MAX_HISTORY
           /\ Len(store') = MAX_HISTORY
           /\ SubSeq(store', 1, MAX_HISTORY - 1) = Tail(store) ]_vars

\* What GET /api/data returns in this state.
GetData(fault) ==
  IF variant \in MongoVariants THEN MongoGetResponse(fault).data ELSE FileGetResponse(fault).data

\* C9: GET /api/data (and the snapshot, the same read) returns the readings in
\* non-decreasing order of their timestamps.
C9_SortedReads ==
  \A fault \in BOOLEAN :
    LET got == GetData(fault) IN
      \A i, j \in 1..Len(got) :
        (i < j /\ got[i]["timestamp"].k = "iso" /\ got[j]["timestamp"].k = "iso") =>
          got[i]["timestamp"].n <= got[j]["timestamp"].n

IsBroadcastOf(m, doc) == m.type = "new-reading" /\ m.data[1]["id"] = doc["id"]

\* C10: in the MongoDB variants, take readings A and B with A saved before B, and a
\* connected observer whose snapshot does not hold A (it was taken, so the observer
\* registered, before A was saved): if the observer has B's new-reading, it received
\* A's new-reading before it.
C10_BroadcastOrder ==
  variant \in MongoVariants =>
    \A o \in Obs :
      obs[o].sock = "open" =>
        \A k \in 1..Len(inbox[o]) :
          inbox[o][k].type = "initial-data" =>
            \A i, j \in 1..Len(store) :
              (i < j /\ CountIn(inbox[o][k].data, store[i]["id"]) = 0) =>
                \A b \in 1..Len(inbox[o]) :
                  IsBroadcastOf(inbox[o][b], store[j]) =>
                    \E a \in 1..(b - 1) : IsBroadcastOf(inbox[o][a], store[i])

\* The sum of a numeric field over the stored readings, and whether it is finite.
RECURSIVE StoreSum(_, _)
StoreSum(f, n) == IF n = 0 THEN 0 ELSE store[n][f].n + StoreSum(f, n - 1)

AllFinite(f) == \A i \in 1..Len(store) : store[i][f].k = "num"

IsSum(v, f) == AllFinite(f) /\ v = Num(StoreSum(f, Len(store)))
IsMean(r, f) ==
  /\ AllFinite(f)
  /\ r.k = "num"
  /\ IF Len(store) = 0 THEN r.n = 0 ELSE r.n * Len(store) = StoreSum(f, Len(store)) * r.d

\* C11: GET /api/totals returns totalSteps and totalPower equal to the sums, and
\* avgPower, avgVoltage, avgCurrent equal to the arithmetic means, of the readings
\* in the store; all of them 0 when the store is empty.
C11_Totals ==
  variant \in MongoVariants =>
    LET t == TotalsResponse(FALSE).data IN
      /\ IsSum(t.totalSteps, "steps")
      /\ IsSum(t.totalPower, "power_mW")
      /\ IsMean(t.avgPower, "power_mW")
      /\ IsMean(t.avgVoltage, "voltage_V")
      /\ IsMean(t.avgCurrent, "current_mA")

\* The totals of a store whose readings are all finite are its sums and means.
TotalsOfFiniteStore == (\A f \in NumberKeys : AllFinite(f)) => C11_Totals

\* The fields of a totals answer that a daily bucket is to carry as well.
AggregateFields == {"totalSteps", "totalPower", "avgPower", "avgVoltage", "avgCurrent"}

StoredDays == {dateToString(store[i]["timestamp"]) : i \in 1..Len(store)}

\* C12 without the list of fields: one bucket per day that has readings, ascending,
\* and the buckets' reading counts add up to the store (avgVoltage's denominator is
\* the number of readings of the bucket).
DailyBucketsPartition ==
  variant = "server.js" =>
    LET d == DailyResponse(FALSE).data IN
      /\ Len(d) = Cardinality(StoredDays)
      /\ \A i \in 1..Len(d) : d[i]._id \in StoredDays
      /\ \A i \in 1..Len(d) : \A j \in 1..Len(d) : i < j => d[i]._id < d[j]._id
      /\ \A i \in 1..Len(d) :
           Len(DocsOfDay(d[i]._id)) = Cardinality({k \in 1..Len(store) : dateToString(store[k]["timestamp"]) = d[i]._id})

\* C12: GET /api/daily returns one bucket per distinct UTC date among the stored
\* readings, ascending by date, every reading counted in exactly one bucket, and each
\* bucket carries the aggregate fields of the totals answer (totalSteps, totalPower,
\* avgPower, avgVoltage, avgCurrent) over that day's readings.
C12_DailyBuckets ==
  /\ DailyBucketsPartition
  /\ variant = "server.js" =>
       LET d == DailyResponse(FALSE).data IN
         \A i \in 1..Len(d) : AggregateFields \subseteq DOMAIN d[i]

\* How many initial-data messages a sequence of received messages holds.
RECURSIVE InitialDataCount(_)
InitialDataCount(msgs) ==
  IF msgs = <<>> THEN 0
  ELSE (IF Head(msgs).type = "initial-data" THEN 1 ELSE 0) + InitialDataCount(Tail(msgs))

\* C13: an observer connection never receives initial-data more than once, and a
\* connection that is still open when its connection handler has run to its end has
\* received it, whatever the store read of the handler returned.
C13_InitialDataOnce ==
  \A o \in Obs :
    /\ InitialDataCount(inbox[o]) <= 1
    /\ (obs[o].sock = "open" /\ obs[o].pc = "done") => InitialDataCount(inbox[o]) = 1

C15_TimestampChecked ==
  [][ resp'.rid # 0 =>
        /\ resp'.body["timestamp"] = Str =>
             (resp'.status = 400 /\ store' = store /\ inbox' = inbox)
        /\ (resp'.body["timestamp"] = Undef /\ resp'.status = 200) =>
             (resp'.data[1]["timestamp"].k = "iso" /\ resp'.data[1]["timestamp"].n \in 1..now') ]_vars

\* The second half of C15 alone: a stored reading posted without a timestamp carries
\* an instant of its request.
OmittedTimestampIsNow ==
  [][ (resp'.rid # 0 /\ resp'.body["timestamp"] = Undef /\ resp'.status = 200) =>
        (resp'.data[1]["timestamp"].k = "iso" /\ resp'.data[1]["timestamp"].n \in 1..now') ]_vars

\* A callback of the simulator's timer leaves data.json as it was.
TickLeavesStore == [][ nticks' # nticks => store' = store ]_vars

\* C16: a simulator tick only broadcasts and leaves the persisted store unchanged, so
\* that the store always holds exactly the recorded history followed by the readings
\* appended by POST: the only step that changes it is a POST answered 200, and it
\* adds its one reading to what was there.
C16_TickOnlyBroadcasts ==
  [][ variant = "21servercopy.js" =>
        /\ nticks' # nticks => store' = store
        /\ store' # store =>
             (resp'.status = 200 /\ store' = Append(store, resp'.data[1])) ]_vars

\* The readings of a snapshot are the stored ones, each once and in place.
SnapshotOf(data, arr) ==
  /\ Len(data) = Len(arr)
  /\ \A i \in 1..Len(arr) : data[i]["timestamp"] = arr[i]["timestamp"]

\* What a POST, a tick and every other step deliver in the flat-file variants: a POST
\* answered 200 gives every connected observer one new-reading, its reading, and the
\* others nothing; a POST answered 400 or 500 delivers nothing; apart from a
\* connection, a disconnection and a simulator tick no other step delivers anything.
BroadcastOncePerAppend ==
  /\ resp'.status = 200 =>
       \A o \in Obs :
         inbox'[o] = IF obs[o].sock = "open"
                     THEN Append(inbox[o], Message("new-reading", resp'.data))
                     ELSE inbox[o]
  /\ resp'.status \in {400, 500} => inbox' = inbox
  /\ (resp'.rid = 0 /\ obs' = obs /\ nticks' = nticks) => inbox' = inbox

\* The connection step of observer o: its first message is an initial-data.
Connects(o) ==
  /\ obs[o].sock = "none"
  /\ obs'[o].sock = "open"

GetsInitialData(o) ==
  /\ Len(inbox'[o]) = 1
  /\ inbox'[o][1].type = "initial-data"

\* C17: in the flat-file variants an observer receives every reading appended by POST
\* exactly once: in its initial-data snapshot when the append completed before the
\* connection handler ran and the reading is still retained, as one new-reading when
\* the observer was connected before the append; never both, never neither.
C17_FlatExactlyOnce ==
  [][ (variant \in FileVariants) =>
        (BroadcastOncePerAppend /\
         (\A o \in Obs : Connects(o) =>
            (GetsInitialData(o) /\ SnapshotOf(inbox'[o][1].data, store))))
    ]_vars

\* C17 with the failed read of the connection handler set apart: the snapshot holds
\* the retained readings, or it is empty.
C17_FlatAtMostOnce ==
  [][ (variant \in FileVariants) =>
        (BroadcastOncePerAppend /\
         (\A o \in Obs : Connects(o) =>
            (GetsInitialData(o) /\
             (SnapshotOf(inbox'[o][1].data, store) \/ inbox'[o][1].data = <<>>))))
    ]_vars

\* An observer of part_001 that got a reading in its snapshot and the next as a
\* new-reading.
C17_Witness ==
  /\ variant = "part_001"
  /\ \E o \in Obs :
       /\ Len(inbox[o]) >= 2
       /\ inbox[o][1].type = "initial-data"
       /\ inbox[o][1].data # <<>>
       /\ inbox[o][2].type = "new-reading"

\* The append of the request answered in this step has succeeded: save() has put the
\* document in the collection, or the step writes data.json with the reading last.
AppendSucceeded ==
  IF variant \in MongoVariants
  THEN posts[resp'.rid].pc = "saved" /\ resp'.data = <<JsonObj(posts[resp'.rid].doc)>>
  ELSE store' # <<>> /\ resp'.data = <<store'[Len(store')]>>

\* C18: the new-reading of a POSTed reading is emitted only after its append has
\* succeeded and once per successful append: the step that answers 200 emits it once
\* to every connected observer, a POST answered 400 or 500 emits nothing, and no
\* other step but a simulator tick emits a new-reading.
C18_EmitAfterAppend ==
  [][ /\ BroadcastOncePerAppend
      /\ resp'.status = 200 => AppendSucceeded ]_vars

\* A MongoDB variant has answered a POST with 200 and the connected observer's last
\* message is the new-reading of the saved document.
C18_Witness ==
  /\ variant \in MongoVariants
  /\ resp.status = 200
  /\ \E o \in Obs :
       /\ obs[o].sock = "open"
       /\ inbox[o] # <<>>
       /\ inbox[o][Len(inbox[o])] = Message("new-reading", resp.data)

\* A timer callback that got past its empty-load return: it moved the index or
\* delivered a message.
EmittingTick ==
  /\ nticks' # nticks
  /\ (simulatedIndex' # simulatedIndex \/ inbox' # inbox)

\* C19: every new-reading emitted by a simulator tick is a copy of a reading that is in
\* the store at that tick, with only the timestamp replaced; the simulator's index is
\* a valid position of the store contents loaded at that tick; and an emitting tick
\* advances the index by one position, wrapping to the first after the last.
C19_ReplayIsStoredReading ==
  [][ EmittingTick =>
        /\ simulatedIndex < Len(store)
        /\ simulatedIndex' = (simulatedIndex + 1) % Len(store)
        /\ \A o \in Obs :
             obs[o].sock = "open" =>
               inbox'[o] = Append(inbox[o],
                                  Message("new-reading",
                                          <<[store[simulatedIndex + 1] EXCEPT !["timestamp"] = Iso(now)]>>))
    ]_vars
====
